---- MODULE Spec2Model ----
(***************************************************************************)
(* Model of dockerfile_patch/__init__.py: the DockerfilePatcher document   *)
(* (structure, patches, get_images, add_patch, to_str), the DockerFact     *)
(* fact gatherer (tmpfiles, gather_facts, _rm_tmpfiles) and the            *)
(* dockerfile_patch / main orchestration.                                  *)
(*                                                                         *)
(* Text is modelled as a sequence of string pieces; the text itself is the *)
(* concatenation of the pieces.                                            *)
(***************************************************************************)
EXTENDS Integers, Sequences, FiniteSets, TLC

\* ------------------------------------------------------------------ bounds
MaxRecords == 3
MaxPatches == 2
MaxTemplates == 2
MaxScripts == 3

\* ------------------------------------------------------------- vocabulary
\* Python's None
NoneVal == "<None>"

\* base images that occur in the modelled Dockerfiles
Images == {"a", "b"}

\* image arguments handed to add_patch (one carries surrounding blanks)
PatchImages == {"a", "b", "a "}

PatchNames == {NoneVal, "n1"}

PatchContents == {<<"RUN p1">>, <<"RUN p2">>}

\* str.strip() on the strings of the model
Strip(s) ==
    CASE s = "a "  -> "a"
      [] s = " a"  -> "a"
      [] s = "b "  -> "b"
      [] s = "app " -> "app"
      [] s = " "   -> ""
      [] OTHER     -> s

\* str.upper() on the instruction keywords of the model
Upper(s) ==
    CASE s = "from" -> "FROM"
      [] s = "From" -> "FROM"
      [] s = "run"  -> "RUN"
      [] OTHER      -> s

\* truth value of a Python str-or-None
Truthy(s) == s # NoneVal /\ s # ""

\* ------------------------------------------------------ Dockerfile records
\* One entry of DockerfileParser.structure.  The parser stores the
\* instruction keyword upper-cased and the source text verbatim in content.
FromRecord(img, line) ==
    [instruction |-> "FROM", value |-> img,
     content |-> "FROM " \o img \o "\n", startline |-> line, endline |-> line]

RunRecord(line) ==
    [instruction |-> "RUN", value |-> "echo hi",
     content |-> "RUN echo hi\n", startline |-> line, endline |-> line]

RecordsAt(line) == {FromRecord(img, line) : img \in Images} \cup {RunRecord(line)}

\* the documents load() can produce, up to MaxRecords records
Documents ==
    UNION { { s \in [1..n -> UNION {RecordsAt(l) : l \in 0..(n-1)}] :
                \A i \in 1..n : s[i].startline = i - 1 } : n \in 1..MaxRecords }

VARIABLES
    structure,   \* DockerfilePatcher.structure
    patches,     \* DockerfilePatcher.patches
    result,      \* value returned by the last to_str call (pieces)
    resultPatch, \* the 'patch' argument of that call ("none" before any call)
    raised,      \* exception raised by the last add_patch call, or NoneVal
    images,      \* value returned by the last get_images call
    imagesArg,   \* the 'image' argument of that call (NoCall before any call)
    \* --- inputs of one run of main()
    inDoc,        \* what DockerfileParser yields for the Dockerfile
    inTemplates,  \* args.patch: the template paths
    \* --- dockerfile_patch() and main()
    pc,           \* position of the run
    jinja_patches_content,
    facts,        \* dict image_name -> fact document
    cur,          \* position of the loop over dockerfile.get_images()
    image_patch,  \* dockerfile_patch local 'patch': the patch composed for the image
    output,       \* text written to the output file or stdout, or NoOutput
    exitStatus,   \* process exit status, Running before the exit
    failure,      \* the exception that ended the run, or NoneVal
    deleted,      \* DockerFact.__del__ has run
    stderr,       \* the messages written to standard error
    \* --- DockerFact
    tmpfiles,     \* DockerFact.tmpfiles
    fact_scripts_paths,
    disk,         \* the workspace directories that exist on disk
    wsFiles,      \* the files inside the current workspace
    host_mpoint,  \* gather_facts local: the workspace of this call
    image_user,   \* gather_facts local
    factsYaml,    \* content of facts.yaml in the workspace
    stdout,       \* gather_facts local: what was read from facts.yaml
    gfacts,       \* gather_facts local 'facts'
    main_script_content, \* gather_facts local
    calls,        \* log of gather_facts invocations and runtime calls
    containers,   \* the probe containers that are running, by workspace
    \* --- /bin/sh running the main script inside the container
    shLine,       \* the line of the main script to execute next
    shStatus,     \* exit status of the last command
    shExit,       \* exit status of the shell, Running while it runs
    shExecuted    \* the commands executed so far

pvars == <<structure, patches, result, resultPatch, raised>>

apiVars == <<images, imagesArg>>

rvars == <<inDoc, inTemplates, pc, jinja_patches_content, facts, cur, image_patch,
           output, exitStatus, failure, deleted, stderr, tmpfiles, fact_scripts_paths,
           disk, wsFiles, host_mpoint, image_user, factsYaml, stdout, gfacts,
           main_script_content, calls, containers, shLine, shStatus, shExit, shExecuted>>

vars == <<pvars, apiVars, rvars>>

\* ------------------------------------------------------- DockerfilePatcher
get_images_FirstOnly(s, image) ==
    LET all == SelectSeq(s, LAMBDA item :
                   /\ Upper(item.instruction) = "FROM"
                   /\ ~(Truthy(image) /\ item.value # image))
    IN  IF all = <<>> THEN <<>> ELSE <<all[1]>>

\* get_images: the FROM records, optionally only those of one image
get_images(s, image) ==
    SelectSeq(s, LAMBDA item :
        /\ Upper(item.instruction) = "FROM"
        /\ ~(Truthy(image) /\ item.value # image))

\* Python '==' between a patches element (a dict) and the image (a str)
DictEqualsStr_Dup(d, s) == d.image = s

DictEqualsStr(d, s) == FALSE

\* 'image in self.patches' : list membership by ==
add_patch_raises(ps, image) == \E i \in DOMAIN ps : DictEqualsStr(ps[i], image)

add_patch_Replace(ps, image, content, patch_name) ==
    LET Other(e) == e.image # Strip(image)
    IN  Append(SelectSeq(ps, Other),
               [image |-> Strip(image), patch_name |-> patch_name,
                content |-> content])

add_patch_Prepend(ps, image, content, patch_name) ==
    <<[image |-> Strip(image), patch_name |-> patch_name, content |-> content]>> \o ps

\* the list after a successful add_patch
add_patch(ps, image, content, patch_name) ==
    Append(ps, [image |-> Strip(image), patch_name |-> patch_name,
                content |-> content])

Dashes == "--------"

patch_comment(item, patch_item) ==
    LET head == "#" \o Dashes \o " '" \o item.value \o "' dockerfile-patch"
        named == IF Truthy(patch_item.patch_name)
                 THEN head \o ": " \o patch_item.patch_name
                 ELSE head
    IN  named \o " " \o Dashes

\* the text appended for one patch_item inside the loop over self.patches
PatchBlock(item, patch_item) ==
    <<"\n", patch_comment(item, patch_item), "\n">> \o patch_item.content
        \o <<"\n", patch_comment(item, patch_item), "\n\n">>

\* A piece of the result: the text appended, labelled with the iteration
\* that appended it (rec = index in structure; entry = index in patches,
\* 0 for the record's own content).
Piece(rec, entry, text) == [rec |-> rec, entry |-> entry, text |-> text]

\* the test that opens the patch loop for a record
IsPatchPoint_AnyRecord(item) == TRUE

IsPatchPoint(item) == item.instruction = "FROM"

\* 'if not patch: continue' followed by the FROM test
EmitsPatches_IgnoreFlag(patch, item) == IsPatchPoint(item)

EmitsPatches(patch, item) == patch /\ IsPatchPoint(item)

RECURSIVE PatchLoop_Reversed(_, _, _, _)
PatchLoop_Reversed(s, ps, i, j) ==
    IF j > Len(ps) THEN <<>>
    ELSE PatchLoop_Reversed(s, ps, i, j + 1) \o <<Piece(i, j, PatchBlock(s[i], ps[j]))>>

\* 'for patch_item in self.patches', from the j-th entry on, for record i
RECURSIVE PatchLoop(_, _, _, _)
PatchLoop(s, ps, i, j) ==
    IF j > Len(ps) THEN <<>>
    ELSE <<Piece(i, j, PatchBlock(s[i], ps[j]))>> \o PatchLoop(s, ps, i, j + 1)

\* 'for item in self.structure', from the i-th record on
RECURSIVE StructureLoop(_, _, _, _)
StructureLoop(s, ps, patch, i) ==
    IF i > Len(s) THEN <<>>
    ELSE <<Piece(i, 0, <<s[i].content>>)>>
         \o (IF EmitsPatches(patch, s[i]) THEN PatchLoop(s, ps, i, 1) ELSE <<>>)
         \o StructureLoop(s, ps, patch, i + 1)

to_str(s, ps, patch) == StructureLoop(s, ps, patch, 1)

\* the string a list of pieces stands for
RECURSIVE Text(_)
Text(pieces) ==
    IF pieces = <<>> THEN <<>> ELSE Head(pieces).text \o Text(Tail(pieces))

\* concatenation of the records' content, in order
RECURSIVE RawText(_)
RawText(s) == IF s = <<>> THEN <<>> ELSE <<Head(s).content>> \o RawText(Tail(s))

\* ------------------------------------------------------------ Python values
\* dicts are sets of <<key, value>> pairs with distinct keys
DictHas(d, k) == \E kv \in d : kv[1] = k

DictGet(d, k) == (CHOOSE kv \in d : kv[1] = k)[2]

DictSet_KeepExisting(d, k, v) == IF DictHas(d, k) THEN d ELSE d \cup {<<k, v>>}

\* d[k] = v
DictSet(d, k, v) == {kv \in d : kv[1] # k} \cup {<<k, v>>}

\* a value yaml.load can return: None, a str or a dict
PyNone == [tag |-> "None", items |-> {}]

PyStr == [tag |-> "str", items |-> {}]

PyDict(d) == [tag |-> "dict", items |-> d]

Running == -1

NoOutput == <<NoneVal>>

NoCall == "<no call>"

\* the run of no program: the state the class specification keeps
IdleRun ==
    /\ inDoc = <<>>
    /\ inTemplates = <<>>
    /\ pc = "idle"
    /\ jinja_patches_content = <<>>
    /\ facts = {}
    /\ cur = 1
    /\ image_patch = <<>>
    /\ output = NoOutput
    /\ exitStatus = Running
    /\ failure = NoneVal
    /\ deleted = FALSE
    /\ stderr = <<>>
    /\ tmpfiles = <<>>
    /\ fact_scripts_paths = <<>>
    /\ disk = {}
    /\ wsFiles = {}
    /\ host_mpoint = NoneVal
    /\ image_user = NoneVal
    /\ factsYaml = NoneVal
    /\ stdout = ""
    /\ gfacts = PyNone
    /\ main_script_content = <<>>
    /\ calls = <<>>
    /\ containers = {}
    /\ shLine = 1
    /\ shStatus = 0
    /\ shExit = Running
    /\ shExecuted = <<>>

\* --------------------------------------------- specification of the class
InitPatcher ==
    /\ structure \in Documents
    /\ patches = <<>>
    /\ result = <<>>
    /\ resultPatch = "none"
    /\ images = <<>>
    /\ imagesArg = NoCall
    /\ raised = NoneVal
    /\ IdleRun

AddPatch ==
    /\ UNCHANGED apiVars
    /\ pc = "idle"
    /\ Len(patches) < MaxPatches
    /\ \E image \in PatchImages, content \in PatchContents, name \in PatchNames :
         IF add_patch_raises(patches, image)
         THEN /\ raised' = "KeyError"
              /\ UNCHANGED patches
         ELSE /\ raised' = NoneVal
              /\ patches' = add_patch(patches, image, content, name)
    /\ UNCHANGED <<structure, result, resultPatch>>
    /\ UNCHANGED rvars

ToStr_Consuming ==
    /\ UNCHANGED apiVars
    /\ pc = "idle"
    /\ \E p \in BOOLEAN :
         /\ result' = to_str(structure, patches, p)
         /\ resultPatch' = IF p THEN "true" ELSE "false"
    /\ patches' = <<>>
    /\ UNCHANGED <<structure, raised>>
    /\ UNCHANGED rvars

ToStr ==
    /\ UNCHANGED apiVars
    /\ pc = "idle"
    /\ \E p \in BOOLEAN :
         /\ result' = to_str(structure, patches, p)
         /\ resultPatch' = IF p THEN "true" ELSE "false"
    /\ UNCHANGED <<structure, patches, raised>>
    /\ UNCHANGED rvars

NextPatcher == AddPatch \/ ToStr

SpecPatcher == InitPatcher /\ [][NextPatcher]_vars

\* ------------------------------------------------------------- DockerFact
TmpNames == {"dockerfile-patch-x1.tmp", "dockerfile-patch-x2.tmp"}

\* tempfile.mkdtemp picks a name no earlier call of the run has used: the
\* k-th gather_facts call of a run gets the k-th name
fresh_name(log) ==
    IF Cardinality({i \in DOMAIN log : log[i].op = "gather_facts"}) <= 1
    THEN "dockerfile-patch-x1.tmp"
    ELSE "dockerfile-patch-x2.tmp"

\* tempfile.mkdtemp(dir=tmp_dir): the path of the new directory
HostPath(name) == "./" \o name

\* os.path.basename on the paths of the model
Basename(p) ==
    CASE p = "./dockerfile-patch-x1.tmp" -> "dockerfile-patch-x1.tmp"
      [] p = "./dockerfile-patch-x2.tmp" -> "dockerfile-patch-x2.tmp"
      [] p = "/pkg/data/default-facts.sh" -> "default-facts.sh"
      [] p = "/pkg/extra/os.sh" -> "os.sh"
      [] p = "/pkg/other/os.sh" -> "os.sh"
      [] p = "/pkg/extra/my facts.sh" -> "my facts.sh"
      [] OTHER -> p

\* os.path.abspath on the script paths of the model
Abspath(p) ==
    CASE p = "data/default-facts.sh" -> "/pkg/data/default-facts.sh"
      [] p = "extra/os.sh" -> "/pkg/extra/os.sh"
      [] p = "other/os.sh" -> "/pkg/other/os.sh"
      [] p = "extra/my facts.sh" -> "/pkg/extra/my facts.sh"
      [] OTHER -> p

\* fact_scripts_paths handed over by main(): the default script
DefaultFactScripts == <<"data/default-facts.sh">>

\* OrderedDict item assignment: a known key keeps its place
OdSet(od, k, v) ==
    IF \E i \in DOMAIN od : od[i].path = k
    THEN [i \in DOMAIN od |-> IF od[i].path = k THEN [path |-> k, content |-> v] ELSE od[i]]
    ELSE Append(od, [path |-> k, content |-> v])

RECURSIVE add_fact_scripts(_, _)
add_fact_scripts(od, paths) ==
    IF paths = <<>> THEN od
    ELSE add_fact_scripts(OdSet(od, Abspath(Head(paths)), "#!/bin/sh"), Tail(paths))

\* str(index).zfill(6) for the indexes of the model
Zfill6(index) ==
    CASE index = 1 -> "000001"
      [] index = 2 -> "000002"
      [] index = 3 -> "000003"
      [] OTHER     -> "000004"

facter_script_name(index, scr_path) ==
    Zfill6(index) \o "-" \o Basename(scr_path) \o "-fact"

guest_dir(mpoint) == "/" \o Basename(mpoint)

guest_scripts(mpoint, od) ==
    [i \in DOMAIN od |-> guest_dir(mpoint) \o "/" \o facter_script_name(i, od[i].path)]

main_script_name == "main_facter.sh"

main_script_lines(mpoint, od) ==
    <<"#!/bin/sh\n", "cd \"" \o guest_dir(mpoint) \o "\" || exit 1\n">>
      \o [i \in DOMAIN od |-> guest_scripts(mpoint, od)[i] \o " || exit 1\n"]

\* what inspect_image reports as Config.User
ConfigUsers == {"", "root", "app "}

\* what the probe scripts may leave in facts.yaml (NoneVal: no file)
FactsFileContents ==
    {NoneVal, "", "osfamily: debian\n", "{}\n", "just text\n",
     "docker_image_user: probe\n"}

\* yaml.load on the texts of the model
YamlLoad(text) ==
    CASE text = ""                  -> PyNone
      [] text = "osfamily: debian\n" -> PyDict({<<"osfamily", "debian">>})
      [] text = "{}\n"               -> PyDict({})
      [] text = "docker_image_user: probe\n" -> PyDict({<<"docker_image_user", "probe">>})
      [] OTHER                      -> PyStr

\* the user stored as docker_image_user
InjectedUser(user) == IF user # "" THEN user ELSE "root"

rm_tmpfiles_Nothing(d, t) == d

\* _rm_tmpfiles: the directories left on disk
rm_tmpfiles(d, t) == d \ {t[i] : i \in DOMAIN t}

\* -------------------------------------------------------- dockerfile_patch
TemplatePaths == {"t1.j2", "t2.j2"}

TemplateLists ==
    UNION {[1..n -> TemplatePaths] : n \in 1..MaxTemplates}

\* the content of the template files of the model
TemplateContent(path) ==
    IF path = "t1.j2"
    THEN "RUN setup {{ osfamily }}\n"
    ELSE "{% if docker_image_user != 'root' %}RUN chown {{ docker_image_user }}{% endif %}\n"

\* Template(content).render(**f).strip()
RenderStrip(content, f) ==
    IF content = "RUN setup {{ osfamily }}\n"
    THEN IF DictHas(f, "osfamily") THEN "RUN setup " \o DictGet(f, "osfamily")
                                   ELSE "RUN setup"
    ELSE IF DictHas(f, "docker_image_user") /\ DictGet(f, "docker_image_user") = "root"
         THEN ""
         ELSE IF DictHas(f, "docker_image_user")
              THEN "RUN chown " \o DictGet(f, "docker_image_user")
              ELSE "RUN chown"

\* 'for item_j2_data in jinja_patches_content', from the i-th template on
RECURSIVE TemplateLoop(_, _, _)
TemplateLoop(jpc, f, i) ==
    IF i > Len(jpc) THEN <<>>
    ELSE <<"\n", "#\n", "# ==> Patch: " \o jpc[i].path \o "\n", "#\n",
           RenderStrip(jpc[i].content, f) \o "\n">> \o TemplateLoop(jpc, f, i + 1)

RootHeader ==
    <<"# dockerfile-patch: change the user to root\n", "USER root\n\n",
      "# The patch running as root:\n">>

RootFooter(user) ==
    <<"# dockerfile-patch: go back to the original user\n", "USER " \o user \o "\n">>

\* the user switch: 'patch += ... + patch + ...'
UserSwitch(p, user) == p \o RootHeader \o p \o RootFooter(user)

NeedsUserSwitch_Always(f) == TRUE

\* 'if facts[image_name]['docker_image_user'] != 'root''
NeedsUserSwitch(f) == DictGet(f, "docker_image_user") # "root"

facts_of_Any(fs, img) == (CHOOSE kv \in fs : TRUE)[2]

\* facts[image_name]
facts_of(fs, img) == DictGet(fs, img)

AlreadyGathered_Never(fs, img) == FALSE

AlreadyGathered_Always(fs, img) == TRUE

\* 'if image_name in facts'
AlreadyGathered(fs, img) == DictHas(fs, img)

\* the exceptions raised by sys.exit
IsSystemExit(f) ==
    f \in {"LoadError:Dockerfile", "LoadError:template", "EmptyFacts", "SIGINT", "SIGTERM"}

\* dockerfile_dir of main(): args.path or '.'
dockerfile_dir == "."

\* the message of the 'except OSError' around dockerfile.load
dockerfile_error(dir) ==
    "ERROR: unable to load the Dockerfile located in '" \o dir \o "/Dockerfile" \o "'\n"

\* the message of the 'except OSError' around the template's open
template_error(item) ==
    "ERROR: unable to load the Jinja2 template located in '" \o item \o "'. <err>\n"

failing_item_First(paths, n) == paths[1]

\* the loop variable 'item' when the n-th open fails
failing_item(paths, n) == paths[n]

\* exit status of a run ended by the exception f
ExitCodeOf(f) == IF f = "SIGTERM" THEN 0 ELSE 1

\* ----------------------------------------------- specification of a run
\* main() after parse_args and the installation of the signal handlers,
\* with dockerfile = DockerfilePatcher() and docker_facter = DockerFact()
InitRun ==
    /\ structure = <<>>
    /\ patches = <<>>
    /\ result = <<>>
    /\ resultPatch = "none"
    /\ images = <<>>
    /\ imagesArg = NoCall
    /\ raised = NoneVal
    /\ inDoc \in Documents
    /\ inTemplates \in TemplateLists
    /\ pc = "load_dockerfile"
    /\ jinja_patches_content = <<>>
    /\ facts = {}
    /\ cur = 1
    /\ image_patch = <<>>
    /\ output = NoOutput
    /\ exitStatus = Running
    /\ failure = NoneVal
    /\ deleted = FALSE
    /\ stderr = <<>>
    /\ tmpfiles = <<>>
    /\ fact_scripts_paths = <<>>
    /\ disk = {}
    /\ wsFiles = {}
    /\ host_mpoint = NoneVal
    /\ image_user = NoneVal
    /\ factsYaml = NoneVal
    /\ stdout = ""
    /\ gfacts = PyNone
    /\ main_script_content = <<>>
    /\ calls = <<>>
    /\ containers = {}
    /\ shLine = 1
    /\ shStatus = 0
    /\ shExit = Running
    /\ shExecuted = <<>>

inputs == <<inDoc, inTemplates>>
docVars == <<structure, patches, result, resultPatch, raised>>
orchVars == <<jinja_patches_content, facts, cur, image_patch>>
endVars == <<output, exitStatus, deleted>>
factVars == <<tmpfiles, fact_scripts_paths, disk, wsFiles>>
shVars == <<shLine, shStatus, shExit, shExecuted>>
gfLocals == <<host_mpoint, image_user, factsYaml, stdout, gfacts, main_script_content>>

\* an exception (or sys.exit) leaves the current function
Raise(f) == pc' = "raised" /\ failure' = f

Call(op, image, user, mount) ==
    calls' = Append(calls, [op |-> op, image |-> image, user |-> user, mount |-> mount,
                            volume |-> NoneVal, remove |-> FALSE])

\* the user of the probe container
run_user_OfImage(img_user) == IF img_user # "" THEN img_user ELSE "root"

run_user(img_user) == "root"

\* containers.run(image, ['/bin/sh', guest_main_script], user='root',
\*                remove=True, volumes={abspath(host_mpoint): guest_dir})
RunCall(image, img_user, mpoint) ==
    calls' = Append(calls, [op |-> "run", image |-> image, user |-> run_user(img_user),
                            mount |-> guest_dir(mpoint), volume |-> mpoint,
                            remove |-> TRUE])

\* the image of the current iteration of the loop over get_images()
image_name == get_images(structure, NoneVal)[cur].value

LoadDockerfile ==
    /\ UNCHANGED <<apiVars, containers>>
    /\ UNCHANGED shVars
    /\ pc = "load_dockerfile"
    /\ \/ structure' = inDoc /\ pc' = "load_scripts" /\ UNCHANGED <<failure, stderr>>
       \/ /\ Raise("LoadError:Dockerfile")
          /\ stderr' = Append(stderr, dockerfile_error(dockerfile_dir))
          /\ UNCHANGED structure
    /\ UNCHANGED <<patches, result, resultPatch, raised, inputs, orchVars,
                   endVars, factVars, gfLocals, calls>>

LoadScripts_ThenLoop ==
    /\ UNCHANGED <<apiVars, containers>>
    /\ UNCHANGED shVars
    /\ UNCHANGED stderr
    /\ pc = "load_scripts"
    /\ fact_scripts_paths' = add_fact_scripts(fact_scripts_paths, DefaultFactScripts)
    /\ pc' = "loop"
    /\ UNCHANGED failure
    /\ UNCHANGED <<docVars, inputs, orchVars, endVars, tmpfiles, disk, wsFiles,
                   gfLocals, calls>>

LoadScripts ==
    /\ UNCHANGED <<apiVars, containers>>
    /\ UNCHANGED shVars
    /\ UNCHANGED stderr
    /\ pc = "load_scripts"
    /\ \/ /\ fact_scripts_paths' = add_fact_scripts(fact_scripts_paths, DefaultFactScripts)
          /\ pc' = "load_templates"
          /\ UNCHANGED failure
       \/ Raise("OSError:add_fact_script") /\ UNCHANGED fact_scripts_paths
    /\ UNCHANGED <<docVars, inputs, orchVars, endVars, tmpfiles, disk, wsFiles,
                   gfLocals, calls>>

LoadTemplates ==
    /\ UNCHANGED <<apiVars, containers>>
    /\ UNCHANGED shVars
    /\ pc = "load_templates"
    /\ \/ /\ jinja_patches_content' =
                [i \in DOMAIN inTemplates |->
                    [path |-> inTemplates[i], content |-> TemplateContent(inTemplates[i])]]
          /\ pc' = "loop"
          /\ UNCHANGED <<failure, stderr>>
       \/ \E n \in DOMAIN inTemplates :
            /\ jinja_patches_content' =
                  [i \in 1..(n - 1) |->
                      [path |-> inTemplates[i], content |-> TemplateContent(inTemplates[i])]]
            /\ stderr' = Append(stderr, template_error(failing_item(inTemplates, n)))
            /\ Raise("LoadError:template")
       \* fhandler.read() of a file that does not decode: not an OSError
       \/ \E n \in DOMAIN inTemplates :
            /\ jinja_patches_content' =
                  [i \in 1..(n - 1) |->
                      [path |-> inTemplates[i], content |-> TemplateContent(inTemplates[i])]]
            /\ Raise("UnicodeDecodeError")
            /\ UNCHANGED stderr
    /\ UNCHANGED <<docVars, inputs, facts, cur, image_patch, endVars, factVars,
                   gfLocals, calls>>

\* 'if image_name in facts: continue'
LoopSkip ==
    /\ UNCHANGED <<apiVars, containers>>
    /\ UNCHANGED shVars
    /\ UNCHANGED stderr
    /\ pc = "loop"
    /\ cur <= Len(get_images(structure, NoneVal))
    /\ AlreadyGathered(facts, image_name)
    /\ cur' = cur + 1
    /\ UNCHANGED <<docVars, inputs, pc, jinja_patches_content, facts, image_patch,
                   endVars, failure, factVars, gfLocals, calls>>

\* the call docker_facter.gather_facts(image_name, tmp_dir=dockerfile_dir)
LoopGather ==
    /\ UNCHANGED <<apiVars, containers>>
    /\ UNCHANGED shVars
    /\ UNCHANGED stderr
    /\ pc = "loop"
    /\ cur <= Len(get_images(structure, NoneVal))
    /\ ~AlreadyGathered(facts, image_name)
    /\ pc' = "gf_mkdtemp"
    /\ stdout' = ""
    /\ Call("gather_facts", image_name, NoneVal, NoneVal)
    /\ UNCHANGED <<docVars, inputs, orchVars, endVars, failure, factVars,
                   host_mpoint, image_user, factsYaml, gfacts, main_script_content>>

GfMkdtemp ==
    /\ UNCHANGED <<apiVars, containers>>
    /\ UNCHANGED shVars
    /\ UNCHANGED stderr
    /\ pc = "gf_mkdtemp"
    /\ \E name \in TmpNames :
         /\ name = fresh_name(calls)
         /\ HostPath(name) \notin disk
         /\ host_mpoint' = HostPath(name)
         /\ disk' = disk \cup {HostPath(name)}
    /\ wsFiles' = {}
    /\ factsYaml' = NoneVal
    /\ pc' = "gf_track"
    /\ UNCHANGED <<docVars, inputs, orchVars, endVars, failure, tmpfiles,
                   fact_scripts_paths, image_user, stdout, gfacts,
                   main_script_content, calls>>

\* self.tmpfiles.append(host_mpoint)
GfTrack ==
    /\ UNCHANGED <<apiVars, containers>>
    /\ UNCHANGED shVars
    /\ pc = "gf_track"
    /\ tmpfiles' = Append(tmpfiles, host_mpoint)
    /\ pc' = "gf_write"
    /\ UNCHANGED <<docVars, inputs, orchVars, endVars, failure, stderr,
                   fact_scripts_paths, disk, wsFiles, gfLocals, calls>>

GfWriteScripts ==
    /\ UNCHANGED <<apiVars, containers>>
    /\ UNCHANGED shVars
    /\ UNCHANGED stderr
    /\ pc = "gf_write"
    /\ \/ /\ wsFiles' = {facter_script_name(i, fact_scripts_paths[i].path) :
                            i \in DOMAIN fact_scripts_paths} \cup {main_script_name}
          /\ main_script_content' = main_script_lines(host_mpoint, fact_scripts_paths)
          /\ pc' = "gf_pull"
          /\ UNCHANGED failure
       \/ Raise("OSError:write_scripts") /\ UNCHANGED <<wsFiles, main_script_content>>
    /\ UNCHANGED <<docVars, inputs, orchVars, endVars, tmpfiles, fact_scripts_paths,
                   disk, host_mpoint, image_user, factsYaml, stdout, gfacts, calls>>

GfPull_Continue ==
    /\ UNCHANGED <<apiVars, containers>>
    /\ UNCHANGED shVars
    /\ pc = "gf_pull"
    /\ stderr' = Append(stderr, "[RUN] docker pull " \o image_name \o "\n")
    /\ Call("pull", image_name, NoneVal, NoneVal)
    /\ pc' = "gf_inspect"
    /\ \/ UNCHANGED failure
       \/ failure' = "PullError"
    /\ UNCHANGED <<docVars, inputs, orchVars, endVars, factVars, gfLocals>>

GfPull ==
    /\ UNCHANGED <<apiVars, containers>>
    /\ UNCHANGED shVars
    /\ pc = "gf_pull"
    /\ stderr' = Append(stderr, "[RUN] docker pull " \o image_name \o "\n")
    /\ Call("pull", image_name, NoneVal, NoneVal)
    /\ \/ pc' = "gf_inspect" /\ UNCHANGED failure
       \/ Raise("PullError")
    /\ UNCHANGED <<docVars, inputs, orchVars, endVars, factVars, gfLocals>>

GfInspect ==
    /\ UNCHANGED <<apiVars, containers>>
    /\ UNCHANGED shVars
    /\ UNCHANGED stderr
    /\ pc = "gf_inspect"
    /\ \/ \E u \in ConfigUsers :
            /\ Call("inspect", image_name, u, NoneVal)
            /\ image_user' = Strip(u)
            /\ pc' = "gf_run"
            /\ UNCHANGED failure
       \/ /\ Call("inspect", image_name, NoneVal, NoneVal)
          /\ Raise("InspectError")
          /\ UNCHANGED image_user
    /\ UNCHANGED <<docVars, inputs, orchVars, endVars, factVars, host_mpoint,
                   factsYaml, stdout, gfacts, main_script_content>>

\* containers.run(...) starts the probe container and waits for it
GfRun ==
    /\ UNCHANGED apiVars
    /\ UNCHANGED shVars
    /\ UNCHANGED stderr
    /\ pc = "gf_run"
    /\ RunCall(image_name, image_user, host_mpoint)
    /\ \/ /\ containers' = containers \cup {host_mpoint}
          /\ pc' = "gf_running"
          /\ UNCHANGED failure
       \/ Raise("RunError") /\ UNCHANGED containers
    /\ UNCHANGED <<docVars, inputs, orchVars, endVars, factVars, gfLocals>>

\* the container exits and is removed (remove=True); containers.run
\* returns, or raises when the main script exited non-zero
GfRunReturn ==
    /\ UNCHANGED apiVars
    /\ UNCHANGED shVars
    /\ UNCHANGED stderr
    /\ pc = "gf_running"
    /\ containers' = containers \ {host_mpoint}
    /\ \/ \E written \in FactsFileContents :
            /\ factsYaml' = written
            /\ wsFiles' = IF written = NoneVal THEN wsFiles
                          ELSE wsFiles \cup {"facts.yaml"}
            /\ pc' = "gf_read"
            /\ UNCHANGED failure
       \/ Raise("RunError") /\ UNCHANGED <<factsYaml, wsFiles>>
    /\ UNCHANGED <<docVars, inputs, orchVars, endVars, tmpfiles, fact_scripts_paths,
                   disk, host_mpoint, image_user, stdout, gfacts, main_script_content,
                   calls>>

\* open(facts_yaml).read(), IOError swallowed
GfRead ==
    /\ UNCHANGED <<apiVars, containers>>
    /\ UNCHANGED shVars
    /\ UNCHANGED stderr
    /\ pc = "gf_read"
    /\ stdout' = IF "facts.yaml" \in wsFiles THEN factsYaml ELSE stdout
    /\ pc' = "gf_parse"
    /\ UNCHANGED <<docVars, inputs, orchVars, endVars, failure, factVars,
                   host_mpoint, image_user, factsYaml, gfacts, main_script_content, calls>>

GfParse ==
    /\ UNCHANGED <<apiVars, containers>>
    /\ UNCHANGED shVars
    /\ UNCHANGED stderr
    /\ pc = "gf_parse"
    /\ gfacts' = YamlLoad(stdout)
    /\ pc' = "gf_inject"
    /\ UNCHANGED <<docVars, inputs, orchVars, endVars, failure, factVars,
                   host_mpoint, image_user, factsYaml, stdout, main_script_content, calls>>

GfInject_Skip ==
    /\ UNCHANGED <<apiVars, containers>>
    /\ UNCHANGED shVars
    /\ UNCHANGED stderr
    /\ pc = "gf_inject"
    /\ IF gfacts.tag = "dict"
       THEN pc' = "gf_check" /\ UNCHANGED <<failure, gfacts>>
       ELSE Raise("TypeError") /\ UNCHANGED gfacts
    /\ UNCHANGED <<docVars, inputs, orchVars, endVars, factVars,
                   host_mpoint, image_user, factsYaml, stdout, main_script_content, calls>>

\* facts['docker_image_user'] = ...: item assignment on the parsed value
GfInject ==
    /\ UNCHANGED <<apiVars, containers>>
    /\ UNCHANGED shVars
    /\ UNCHANGED stderr
    /\ pc = "gf_inject"
    /\ IF gfacts.tag = "dict"
       THEN /\ gfacts' = PyDict(DictSet(gfacts.items, "docker_image_user",
                                        InjectedUser(image_user)))
            /\ pc' = "gf_check"
            /\ UNCHANGED failure
       ELSE Raise("TypeError") /\ UNCHANGED gfacts
    /\ UNCHANGED <<docVars, inputs, orchVars, endVars, factVars,
                   host_mpoint, image_user, factsYaml, stdout, main_script_content, calls>>

\* 'if not facts: sys.exit(1)'
GfCheck ==
    /\ UNCHANGED <<apiVars, containers>>
    /\ UNCHANGED shVars
    /\ UNCHANGED stderr
    /\ pc = "gf_check"
    /\ IF gfacts.items = {}
       THEN Raise("EmptyFacts")
       ELSE pc' = "gf_rm" /\ UNCHANGED failure
    /\ UNCHANGED <<docVars, inputs, orchVars, endVars, factVars, gfLocals, calls>>

\* self._rm_tmpfiles(); return facts; facts[image_name] = <the return value>
GfReturn ==
    /\ UNCHANGED <<apiVars, containers>>
    /\ UNCHANGED shVars
    /\ UNCHANGED stderr
    /\ pc = "gf_rm"
    /\ disk' = rm_tmpfiles(disk, tmpfiles)
    /\ tmpfiles' = <<>>
    /\ facts' = DictSet(facts, image_name, gfacts.items)
    /\ pc' = "compose"
    /\ UNCHANGED <<docVars, inputs, jinja_patches_content, cur, image_patch, endVars,
                   failure, fact_scripts_paths, wsFiles, gfLocals, calls>>

Compose ==
    /\ UNCHANGED <<apiVars, containers>>
    /\ UNCHANGED shVars
    /\ UNCHANGED stderr
    /\ pc = "compose"
    /\ image_patch' = TemplateLoop(jinja_patches_content, facts_of(facts, image_name), 1)
    /\ pc' = "user_switch"
    /\ UNCHANGED <<docVars, inputs, jinja_patches_content, facts, cur, endVars,
                   failure, factVars, gfLocals, calls>>

\* the user switch (USER root, ..., USER previous_user)
SwitchUser ==
    /\ UNCHANGED <<apiVars, containers>>
    /\ UNCHANGED shVars
    /\ UNCHANGED stderr
    /\ pc = "user_switch"
    /\ image_patch' =
          IF NeedsUserSwitch(facts_of(facts, image_name))
          THEN UserSwitch(image_patch,
                          DictGet(facts_of(facts, image_name), "docker_image_user"))
          ELSE image_patch
    /\ pc' = "add_patch"
    /\ UNCHANGED <<docVars, inputs, jinja_patches_content, facts, cur, endVars,
                   failure, factVars, gfLocals, calls>>

\* dockerfile.add_patch(image_name, patch)
RegisterPatch ==
    /\ UNCHANGED <<apiVars, containers>>
    /\ UNCHANGED shVars
    /\ UNCHANGED stderr
    /\ pc = "add_patch"
    /\ IF add_patch_raises(patches, image_name)
       THEN /\ raised' = "KeyError"
            /\ Raise("KeyError")
            /\ UNCHANGED <<patches, cur>>
       ELSE /\ patches' = add_patch(patches, image_name, image_patch, NoneVal)
            /\ cur' = cur + 1
            /\ pc' = "loop"
            /\ UNCHANGED <<raised, failure>>
    /\ UNCHANGED <<structure, result, resultPatch, inputs, jinja_patches_content,
                   facts, image_patch, endVars, factVars, gfLocals, calls>>

\* 'return dockerfile.to_str()'
Return ==
    /\ UNCHANGED <<apiVars, containers>>
    /\ UNCHANGED shVars
    /\ UNCHANGED stderr
    /\ pc = "loop"
    /\ cur > Len(get_images(structure, NoneVal))
    /\ result' = to_str(structure, patches, TRUE)
    /\ resultPatch' = "true"
    /\ pc' = "write"
    /\ UNCHANGED <<structure, patches, raised, inputs, orchVars, endVars, failure,
                   factVars, gfLocals, calls>>

\* main(): write the output to args.output or to stdout, then sys.exit(0)
WriteOutput ==
    /\ UNCHANGED <<apiVars, containers>>
    /\ UNCHANGED shVars
    /\ pc = "write"
    /\ output' = Text(result)
    /\ \E to_file \in BOOLEAN :
         stderr' = IF to_file THEN stderr
                   ELSE Append(stderr, "[SUCCESS] Patched Dockerfile:\n")
    /\ exitStatus' = 0
    /\ pc' = "exited"
    /\ UNCHANGED <<docVars, inputs, orchVars, deleted, failure, factVars, gfLocals, calls>>

\* an uncaught exception or SystemExit reaches the top level
Unwind ==
    /\ UNCHANGED <<apiVars, containers>>
    /\ UNCHANGED shVars
    /\ pc = "raised"
    /\ exitStatus' = ExitCodeOf(failure)
    /\ stderr' = IF IsSystemExit(failure) THEN stderr
                 ELSE Append(stderr, "Traceback (most recent call last): " \o failure)
    /\ pc' = "exited"
    /\ UNCHANGED <<docVars, inputs, orchVars, output, deleted, failure, factVars,
                   gfLocals, calls>>

RunningPcs ==
    {"load_dockerfile", "load_scripts", "load_templates", "loop", "gf_mkdtemp", "gf_track",
     "gf_write", "gf_pull", "gf_inspect", "gf_run", "gf_running", "gf_read",
     "gf_parse",
     "gf_inject", "gf_check", "gf_rm", "compose", "user_switch", "add_patch",
     "write"}

\* garbage_collector(signum, frame): gc.collect(), then sys.exit
Signal ==
    /\ UNCHANGED <<apiVars, containers>>
    /\ UNCHANGED shVars
    /\ pc \in RunningPcs
    /\ \E sig \in {"SIGINT", "SIGTERM"} :
         /\ Raise(sig)
         /\ stderr' = IF sig = "SIGINT" THEN Append(stderr, "Interrupted.\n") ELSE stderr
    /\ UNCHANGED <<docVars, inputs, orchVars, endVars, factVars, gfLocals, calls>>

\* DockerFact.__del__, once docker_facter is no longer referenced
Del ==
    /\ UNCHANGED <<apiVars, containers>>
    /\ UNCHANGED shVars
    /\ UNCHANGED stderr
    /\ pc \in {"write", "exited"}
    /\ ~deleted
    /\ deleted' = TRUE
    /\ disk' = rm_tmpfiles(disk, tmpfiles)
    /\ tmpfiles' = <<>>
    /\ UNCHANGED <<docVars, inputs, pc, orchVars, output, exitStatus, failure,
                   fact_scripts_paths, wsFiles, gfLocals, calls>>

NextRun ==
    \/ LoadDockerfile \/ LoadScripts \/ LoadTemplates
    \/ LoopSkip \/ LoopGather
    \/ GfMkdtemp \/ GfTrack \/ GfWriteScripts \/ GfPull \/ GfInspect \/ GfRun \/ GfRunReturn
    \/ GfRead \/ GfParse \/ GfInject \/ GfCheck \/ GfReturn
    \/ Compose \/ SwitchUser \/ RegisterPatch \/ Return \/ WriteOutput
    \/ Unwind \/ Signal \/ Del

SpecRun == InitRun /\ [][NextRun]_vars

\* ------------------------------------- specification of the script bundle
\* the script paths handed to add_fact_script
ScriptPaths == {"data/default-facts.sh", "extra/os.sh", "other/os.sh", "extra/my facts.sh"}

\* fhandler.read() of a script file
ScriptContent(path) == "#!/bin/sh # " \o Abspath(path)

\* a DockerFact just constructed
InitBundle ==
    /\ structure = <<>>
    /\ patches = <<>>
    /\ result = <<>>
    /\ resultPatch = "none"
    /\ images = <<>>
    /\ imagesArg = NoCall
    /\ raised = NoneVal
    /\ inDoc = <<>>
    /\ inTemplates = <<>>
    /\ pc = "bundle"
    /\ jinja_patches_content = <<>>
    /\ facts = {}
    /\ cur = 1
    /\ image_patch = <<>>
    /\ output = NoOutput
    /\ exitStatus = Running
    /\ failure = NoneVal
    /\ deleted = FALSE
    /\ stderr = <<>>
    /\ tmpfiles = <<>>
    /\ fact_scripts_paths = <<>>
    /\ disk = {}
    /\ wsFiles = {}
    /\ host_mpoint = NoneVal
    /\ image_user = NoneVal
    /\ factsYaml = NoneVal
    /\ stdout = ""
    /\ gfacts = PyNone
    /\ main_script_content = <<>>
    /\ calls = <<>>
    /\ containers = {}
    /\ shLine = 1
    /\ shStatus = 0
    /\ shExit = Running
    /\ shExecuted = <<>>

\* docker_facter.add_fact_script(path)
AddFactScript ==
    /\ UNCHANGED <<apiVars, containers>>
    /\ pc = "bundle"
    /\ Len(fact_scripts_paths) < MaxScripts
    /\ \E path \in ScriptPaths :
         fact_scripts_paths' = OdSet(fact_scripts_paths, Abspath(path), ScriptContent(path))
    /\ UNCHANGED <<docVars, inputs, pc, orchVars, endVars, failure, stderr, tmpfiles,
                   disk, wsFiles, gfLocals, calls, shVars>>

\* the call of gather_facts
BundleGather ==
    /\ UNCHANGED <<apiVars, containers>>
    /\ pc = "bundle"
    /\ pc' = "gf_mkdtemp"
    /\ UNCHANGED <<docVars, inputs, orchVars, endVars, failure, stderr, factVars,
                   gfLocals, calls, shVars>>

\* the files of the workspace as the container sees them
GuestFiles(mpoint, files) == {guest_dir(mpoint) \o "/" \o f : f \in files}

\* the first of the words /bin/sh splits an unquoted file name into
ShFirstWord(name) == IF name = "my facts.sh" THEN "my" ELSE name

\* the cd of the main script; the directory is quoted
ShCd(mpoint) == "cd \"" \o guest_dir(mpoint) \o "\""

\* the command texts a line of the main script can hold, each with the
\* command /bin/sh executes for it
ShCommands(mpoint) ==
    {[text |-> ShCd(mpoint), argv0 |-> ShCd(mpoint)]}
      \cup {[text  |-> guest_dir(mpoint) \o "/" \o facter_script_name(i, Abspath(q)),
             argv0 |-> IF ShFirstWord(Basename(Abspath(q))) = Basename(Abspath(q))
                       THEN guest_dir(mpoint) \o "/" \o facter_script_name(i, Abspath(q))
                       ELSE guest_dir(mpoint) \o "/" \o Zfill6(i) \o "-"
                                \o ShFirstWord(Basename(Abspath(q)))] :
               i \in 1..(MaxScripts + 1), q \in ScriptPaths}

\* a line of the main script as /bin/sh reads it: the command, and whether
\* '|| exit 1' follows it
ShParse(line, mpoint) ==
    IF \E c \in ShCommands(mpoint) : line = c.text \o " || exit 1\n"
    THEN [cmd |-> (CHOOSE c \in ShCommands(mpoint) : line = c.text \o " || exit 1\n").argv0,
          orExit |-> TRUE]
    ELSE [cmd |-> (CHOOSE c \in ShCommands(mpoint) : line = c.text \o "\n").argv0,
          orExit |-> FALSE]

\* the container starts '/bin/sh <guest_dir>/main_facter.sh'
ShStart ==
    /\ UNCHANGED <<apiVars, containers>>
    /\ pc = "gf_pull"
    /\ pc' = "sh"
    /\ shLine' = 1
    /\ shStatus' = 0
    /\ shExit' = Running
    /\ shExecuted' = <<>>
    /\ UNCHANGED <<docVars, inputs, orchVars, endVars, failure, stderr, factVars,
                   gfLocals, calls>>

\* /bin/sh executes one line of the main script; a command that names no
\* file of the shared directory cannot succeed
ShStep ==
    /\ UNCHANGED <<apiVars, containers>>
    /\ pc = "sh"
    /\ shExit = Running
    /\ shLine <= Len(main_script_content)
    /\ LET line == main_script_content[shLine]
       IN  IF line = "#!/bin/sh\n"
           THEN /\ shLine' = shLine + 1
                /\ UNCHANGED <<shStatus, shExit, shExecuted>>
           ELSE LET c == ShParse(line, host_mpoint)
                IN  /\ shExecuted' = Append(shExecuted, c.cmd)
                    /\ \E ok \in BOOLEAN :
                         /\ ok => \/ c.cmd = ShCd(host_mpoint)
                                  \/ c.cmd \in GuestFiles(host_mpoint, wsFiles)
                         /\ shStatus' = IF ok THEN 0 ELSE 1
                         /\ IF ~ok /\ c.orExit
                            THEN shExit' = 1 /\ UNCHANGED shLine
                            ELSE shLine' = shLine + 1 /\ UNCHANGED shExit
    /\ UNCHANGED <<docVars, inputs, pc, orchVars, endVars, failure, stderr, factVars,
                   gfLocals, calls>>

\* the end of the script: the shell exits with the last status
ShEnd ==
    /\ UNCHANGED <<apiVars, containers>>
    /\ pc = "sh"
    /\ shExit = Running
    /\ shLine > Len(main_script_content)
    /\ shExit' = shStatus
    /\ UNCHANGED <<docVars, inputs, pc, orchVars, endVars, failure, stderr, factVars,
                   gfLocals, calls, shLine, shStatus, shExecuted>>

NextBundle ==
    \/ AddFactScript \/ BundleGather
    \/ GfMkdtemp \/ GfTrack \/ GfWriteScripts
    \/ ShStart \/ ShStep \/ ShEnd

SpecBundle == InitBundle /\ [][NextBundle]_vars

\* ------------------------------ specification of the record functions
\* structure is a plain attribute: load() stores the records of
\* DockerfileParser, whose keywords are upper-case; a record with a keyword
\* in another letter case is what the upper() of get_images provides for
LowerFromRecord(img, line) ==
    [instruction |-> "from", value |-> img,
     content |-> "from " \o img \o "\n", startline |-> line, endline |-> line]

StoredRecordsAt(line) == RecordsAt(line) \cup {LowerFromRecord("a", line)}

\* the record lists a DockerfilePatcher can hold, up to MaxRecords records
StoredDocuments ==
    UNION { { s \in [1..n -> UNION {StoredRecordsAt(l) : l \in 0..(n-1)}] :
                \A i \in 1..n : s[i].startline = i - 1 } : n \in 1..MaxRecords }

\* patch lists built by add_patch calls
StoredPatches ==
    {<<>>,
     add_patch(<<>>, "a", <<"RUN p1">>, NoneVal),
     add_patch(add_patch(<<>>, "a", <<"RUN p1">>, NoneVal), "b", <<"RUN p2">>, "n1")}

\* the 'image' arguments handed to get_images
ImageArgs == {NoneVal, "", "a", "b"}

InitRecords ==
    /\ structure \in StoredDocuments
    /\ patches \in StoredPatches
    /\ result = <<>>
    /\ resultPatch = "none"
    /\ images = <<>>
    /\ imagesArg = NoCall
    /\ raised = NoneVal
    /\ IdleRun

\* dockerfile.get_images(image)
GetImages ==
    /\ pc = "idle"
    /\ \E image \in ImageArgs :
         /\ images' = get_images(structure, image)
         /\ imagesArg' = image
    /\ UNCHANGED pvars
    /\ UNCHANGED rvars

NextRecords == GetImages \/ ToStr

SpecRecords == InitRecords /\ [][NextRecords]_vars

\* ------------------------------------------------ properties of the class
\* the records get_images() enumerates
IsBaseImage(item) == Upper(item.instruction) = "FROM"

\* the patched serialization of the current document
Patched == to_str(structure, patches, TRUE)

\* positions of the pieces appended for entry j after record i
BlocksOf(out, i, j) == {k \in DOMAIN out : out[k].rec = i /\ out[k].entry = j}

\* the last to_str call was to_str(patch=True) on the current document
FreshPatched == resultPatch = "true" /\ result = Patched

\* C1: in the output of to_str(patch=True), a FROM record for image X is
\* followed only by blocks of entries registered for X, never by the block
\* of an entry registered for another image Y.
C1_OnlyOwnImage ==
    resultPatch = "true" =>
        \A k \in DOMAIN result :
            result[k].entry > 0 =>
                patches[result[k].entry].image = structure[result[k].rec].value

\* C2: every patch block of to_str() lies after the raw text of a
\* base-image record and before the raw text of the next record: the
\* nearest record text before a block is that of a base-image record, no
\* block comes first, and every record's raw text is emitted whole, once,
\* in order.
C2_Placement ==
    resultPatch = "true" =>
        /\ \A k \in DOMAIN result :
              result[k].entry > 0 =>
                 \E m \in 1..(k - 1) :
                    /\ result[m].entry = 0
                    /\ IsBaseImage(structure[result[m].rec])
                    /\ \A n \in (m + 1)..k : result[n].entry > 0
        /\ LET recs == SelectSeq(result, LAMBDA piece : piece.entry = 0)
           IN  /\ Len(recs) = Len(structure)
               /\ \A i \in DOMAIN recs :
                     recs[i].rec = i /\ recs[i].text = <<structure[i].content>>

C2_Witness ==
    /\ resultPatch = "true"
    /\ \E k \in DOMAIN result : result[k].entry > 0
    /\ \E i \in DOMAIN structure : ~IsBaseImage(structure[i])
    /\ \E i \in DOMAIN structure : i > 1 /\ IsBaseImage(structure[i])

\* C3: to_str(patch=False) is exactly the concatenation of the records'
\* content in order, whatever patches are registered.
C3_RoundTrip ==
    /\ Text(to_str(structure, patches, FALSE)) = RawText(structure)
    /\ resultPatch = "false" => Text(result) = RawText(structure)

C3_Witness ==
    /\ resultPatch = "false"
    /\ result = to_str(structure, patches, FALSE)
    /\ Len(patches) > 0
    /\ \E i \in DOMAIN structure :
          IsBaseImage(structure[i]) /\ structure[i].value = patches[1].image

\* every entry registered for the image of a base-image record is emitted
\* after that record, once, as a block of its own between two delimiters
AllEmitted ==
    LET out == Patched
    IN  \A i \in DOMAIN structure :
          IsBaseImage(structure[i]) =>
            \A j \in DOMAIN patches :
                patches[j].image = structure[i].value =>
                    /\ Cardinality(BlocksOf(out, i, j)) = 1
                    /\ \A k \in BlocksOf(out, i, j) :
                          LET t == out[k].text
                              n == Len(patches[j].content)
                          IN  /\ Len(t) = n + 6
                              /\ SubSeq(t, 4, n + 3) = patches[j].content
                              /\ t[2] = t[n + 5]
                              /\ t[2] = patch_comment(structure[i], patches[j])

C9_RegistrationOrder ==
    LET out == Patched
    IN  \A i \in DOMAIN structure :
          IsBaseImage(structure[i]) =>
            \A j1, j2 \in DOMAIN patches :
                ( /\ j1 < j2
                  /\ patches[j1].image = structure[i].value
                  /\ patches[j2].image = structure[i].value ) =>
                    /\ BlocksOf(out, i, j1) # {}
                    /\ BlocksOf(out, i, j2) # {}
                    /\ \A k1 \in BlocksOf(out, i, j1), k2 \in BlocksOf(out, i, j2) :
                          /\ k1 < k2
                          /\ patches[j1].content = SubSeq(out[k1].text, 4,
                                                          Len(out[k1].text) - 3)
                          /\ patches[j2].content = SubSeq(out[k2].text, 4,
                                                          Len(out[k2].text) - 3)

C9_Witness ==
    /\ Len(patches) = 2
    /\ patches[1].image = patches[2].image
    /\ patches[1].content # patches[2].content
    /\ FreshPatched
    /\ Cardinality({i \in DOMAIN structure :
          IsBaseImage(structure[i]) /\ structure[i].value = patches[1].image}) = 2

\* ------------------------------------------------- properties of the run
\* the comment and blank pieces of a composed patch
IsCommentOrBlank(piece) ==
    \/ piece \in {"\n", "#\n", RootHeader[1], RootHeader[3]}
    \/ piece = RootFooter("root")[1]
    \/ piece \in {"# ==> Patch: " \o t \o "\n" : t \in TemplatePaths}

\* the Dockerfile instructions of a composed patch, in order
Instructions(p) == SelectSeq(p, LAMBDA piece : ~IsCommentOrBlank(piece))

\* the user gathered for the current image
GatheredUser == DictGet(DictGet(facts, image_name), "docker_image_user")

\* C4: when the gathered docker_image_user is not 'root', the composed
\* patch begins with the switch to root (its first instruction is
\* 'USER root') and ends with the switch back to the original user.
C4_Bracketed ==
    (pc = "add_patch" /\ GatheredUser # "root") =>
        LET ins == Instructions(image_patch)
        IN  /\ Len(ins) >= 2
            /\ ins[1] = "USER root\n\n"
            /\ ins[Len(ins)] = "USER " \o GatheredUser \o "\n"
            /\ \A k \in 2..(Len(ins) - 1) :
                  ins[k] \notin {"USER root\n\n", "USER " \o GatheredUser \o "\n"}

\* the exceptions raised inside gather_facts after the workspace exists
GatherFailures ==
    {"OSError:write_scripts", "PullError", "InspectError", "RunError",
     "TypeError", "EmptyFacts"}

\* C5: once gather_facts has returned, or was left by an exception raised
\* after the workspace was created, the workspace of that call no longer
\* exists on disk.
C5_WorkspaceGone ==
    (pc = "compose" \/ (pc = "raised" /\ failure \in GatherFailures)) =>
        host_mpoint \notin disk

\* the images gather_facts was invoked for, in invocation order
RECURSIVE GatheredImages(_)
GatheredImages(log) ==
    IF log = <<>> THEN <<>>
    ELSE (IF Head(log).op = "gather_facts" THEN <<Head(log).image>> ELSE <<>>)
         \o GatheredImages(Tail(log))

\* the distinct elements of a sequence, in order of first occurrence
RECURSIVE FirstOccurrences(_, _)
FirstOccurrences(seq, seen) ==
    IF seq = <<>> THEN <<>>
    ELSE IF Head(seq) \in seen THEN FirstOccurrences(Tail(seq), seen)
         ELSE <<Head(seq)>> \o FirstOccurrences(Tail(seq), seen \cup {Head(seq)})

\* the image strings of the base-image records, in file order
BaseImageValues ==
    LET recs == SelectSeq(structure, IsBaseImage)
    IN  [i \in DOMAIN recs |-> recs[i].value]

\* C6: gather_facts is invoked at most once per distinct base-image
\* string, in order of first occurrence; when the loop is over it was
\* invoked exactly once for each distinct string.
C6_GatherOnce ==
    LET g == GatheredImages(calls)
        d == FirstOccurrences(BaseImageValues, {})
    IN  /\ Len(g) <= Len(d)
        /\ g = SubSeq(d, 1, Len(g))
        /\ (pc = "write" => g = d)

C6_Witness ==
    /\ pc = "write"
    /\ Len(BaseImageValues) = 2
    /\ BaseImageValues[1] = BaseImageValues[2]
    /\ GatheredImages(calls) = <<BaseImageValues[1]>>

\* the run ended after a container run that left no facts file or an
\* empty one
EndedOnEmptyFacts ==
    /\ pc = "exited"
    /\ calls # <<>>
    /\ calls[Len(calls)].op = "run"
    /\ factsYaml \in {NoneVal, ""}
    /\ failure \notin {"RunError", "SIGINT", "SIGTERM"}

\* C7: when the probes write no facts file or an empty one, the run ends
\* with a non-zero status through the empty-facts exit, and no patched
\* output is written.
C7_EmptyFactsExit ==
    EndedOnEmptyFacts =>
        /\ exitStatus # 0
        /\ failure = "EmptyFacts"
        /\ output = NoOutput

\* C10: output is written only after facts were gathered and a patch was
\* registered for every distinct image; a run ended by a failing pull,
\* inspect or container run exits non-zero and writes nothing.
C10_AllOrNothing ==
    /\ output # NoOutput =>
          /\ failure = NoneVal
          /\ exitStatus = 0
          /\ output = Text(to_str(structure, patches, TRUE))
          /\ \A i \in DOMAIN structure :
                IsBaseImage(structure[i]) =>
                    /\ DictHas(facts, structure[i].value)
                    /\ \E j \in DOMAIN patches : patches[j].image = structure[i].value
    /\ (pc = "exited" /\ failure \in {"PullError", "InspectError", "RunError"}) =>
          /\ exitStatus # 0
          /\ output = NoOutput
    /\ (pc = "raised" /\ failure \in {"PullError", "InspectError", "RunError"}) =>
          output = NoOutput

C10_Witness ==
    /\ pc = "exited"
    /\ failure \in {"PullError", "InspectError", "RunError"}
    /\ Len(patches) = 1
    /\ facts # {}
    /\ output = NoOutput
    /\ exitStatus = 1

\* C11: when the Dockerfile or one of the templates cannot be loaded, the
\* failing path is reported on standard error, the process ends with a
\* non-zero status and no patched output is produced.
C11_LoadFailure ==
    /\ (pc = "exited" /\ failure = "LoadError:Dockerfile") =>
          /\ output = NoOutput
          /\ exitStatus # 0
          /\ \E k \in DOMAIN stderr :
                stderr[k] = "ERROR: unable to load the Dockerfile located in './Dockerfile'\n"
    /\ (pc = "exited" /\ failure \in {"LoadError:template", "UnicodeDecodeError"}) =>
          /\ output = NoOutput
          /\ exitStatus # 0
          /\ Len(jinja_patches_content) < Len(inTemplates)
          /\ \E k \in DOMAIN stderr :
                stderr[k] = "ERROR: unable to load the Jinja2 template located in '"
                              \o inTemplates[Len(jinja_patches_content) + 1] \o "'. <err>\n"

\* the user a fact document must carry for a configured user
ExpectedUser(configured) == IF Strip(configured) = "" THEN "root" ELSE Strip(configured)

\* C12 as stated: every fact document returned by gather_facts contains
\* docker_image_user, equal to the image's configured user, or 'root' when
\* the image declares none, whatever the probes wrote.
C12_ConfiguredUser ==
    \A kv \in facts :
        /\ DictHas(kv[2], "docker_image_user")
        /\ \E i \in DOMAIN calls :
              /\ calls[i].op = "inspect"
              /\ calls[i].image = kv[1]
              /\ DictGet(kv[2], "docker_image_user") =
                    (IF calls[i].user = "" THEN "root" ELSE calls[i].user)

\* C12: every fact document returned by gather_facts contains
\* docker_image_user, equal to the image's configured user with the
\* surrounding whitespace stripped, or 'root' when nothing is left of it,
\* whatever the probes wrote.
C12_UserInjected ==
    \A kv \in facts :
        /\ DictHas(kv[2], "docker_image_user")
        /\ \E i \in DOMAIN calls :
              /\ calls[i].op = "inspect"
              /\ calls[i].image = kv[1]
              /\ DictGet(kv[2], "docker_image_user") = ExpectedUser(calls[i].user)

C12_Witness ==
    /\ pc = "compose"
    /\ factsYaml = "docker_image_user: probe\n"
    /\ DictHas(facts, image_name)
    /\ DictGet(DictGet(facts, image_name), "docker_image_user") = "app"

\* the provenance headers and renderings of the loaded templates for the
\* fact document f, in the order the templates were supplied
ExpectedBody(f) ==
    [k \in 1..(5 * Len(jinja_patches_content)) |->
        LET tpl == jinja_patches_content[((k - 1) \div 5) + 1]
            r   == (k - 1) % 5
        IN  CASE r = 0 -> "\n"
              [] r = 1 -> "#\n"
              [] r = 2 -> "# ==> Patch: " \o tpl.path \o "\n"
              [] r = 3 -> "#\n"
              [] OTHER -> RenderStrip(tpl.content, f) \o "\n"]

\* C13: when the gathered docker_image_user is 'root' (also when the
\* image's user is empty), the composed patch is exactly the provenance
\* headers and template renderings, with no USER switch.
C13_NoSwitchForRoot ==
    (pc = "add_patch" /\ GatheredUser = "root") =>
        /\ image_patch = ExpectedBody(gfacts.items)
        /\ \A k \in DOMAIN image_patch :
              image_patch[k] \notin {"USER root\n\n", "USER root\n"}

C13_Witness ==
    /\ pc = "add_patch"
    /\ image_user = ""
    /\ GatheredUser = "root"
    /\ Len(image_patch) = 10

\* C14: a to_str() call changes neither the records nor the patch
\* entries, and a second call with the same argument on the same document
\* returns the same text.
C14_PureToStr ==
    [][ /\ (structure' # structure \/ patches' # patches) =>
               UNCHANGED <<result, resultPatch>>
        /\ ( /\ UNCHANGED <<structure, patches>>
             /\ resultPatch' = resultPatch
             /\ resultPatch # "none"
             /\ result = to_str(structure, patches, resultPatch = "true") ) =>
               result' = result ]_vars

C14_Witness ==
    /\ FreshPatched
    /\ Len(patches) = 2
    /\ \E i \in DOMAIN structure : IsBaseImage(structure[i])

\* C15: the process exits with status 0 exactly when the run succeeded
\* and the complete patched document was emitted.
C15_ExitStatus ==
    pc = "exited" =>
        (exitStatus = 0 <=>
            /\ failure = NoneVal
            /\ output = Text(to_str(structure, patches, TRUE)))

\* C16: when SIGINT or SIGTERM arrives while a workspace of gather_facts
\* exists on disk, the workspace is deleted by the time the handler's exit
\* and the clean-up of DockerFact are over.
C16_SignalCleanup ==
    (pc = "exited" /\ deleted /\ failure \in {"SIGINT", "SIGTERM"}) => disk = {}

\* the delimiter line for an entry of the given image and name
ExpectedDelimiter(image, name) ==
    "#-------- '" \o image \o "' dockerfile-patch"
        \o (IF name = NoneVal THEN "" ELSE ": " \o name) \o " --------"

\* C17: every emitted block is wrapped in two identical delimiter lines
\* that carry the target image of the entry being emitted and, when the
\* entry has one, its name.
C17_Delimiters ==
    resultPatch = "true" =>
        \A k \in DOMAIN result :
            result[k].entry > 0 =>
                LET t == result[k].text
                    e == patches[result[k].entry]
                IN  /\ t[2] = t[Len(t) - 1]
                    /\ t[2] = ExpectedDelimiter(e.image, e.patch_name)

\* C18: every container run of gather_facts uses user 'root', whatever
\* the image's user, is removed after exit and mounts the workspace at
\* '/' + basename(workspace).
C18_ProbeRunsAsRoot ==
    \A i \in DOMAIN calls :
        calls[i].op = "run" =>
            /\ calls[i].user = "root"
            /\ calls[i].remove
            /\ \E name \in TmpNames :
                  /\ calls[i].volume = "./" \o name
                  /\ calls[i].mount = "/" \o name

C18_Witness ==
    /\ pc = "gf_read"
    /\ image_user = "app"
    /\ calls[Len(calls)].op = "run"
    /\ calls[Len(calls)].user = "root"

\* C20: the patch composed for an image holds, in the order the templates
\* were supplied, every template's rendering against that image's own fact
\* document, each preceded by the provenance header naming the template.
C20_Composition ==
    pc = "user_switch" =>
        /\ DictHas(facts, image_name)
        /\ image_patch = ExpectedBody(DictGet(facts, image_name))

C20_Witness ==
    /\ pc = "user_switch"
    /\ Len(jinja_patches_content) = 2
    /\ jinja_patches_content[1].path # jinja_patches_content[2].path
    /\ Cardinality(facts) = 2
    /\ \E kv1, kv2 \in facts : kv1[2] # kv2[2]

\* ---------------------------------------------- properties of the bundle
\* the commands of the bundle, in order: the cd, then the numbered scripts
\* in registration order
BundleCommands ==
    <<"cd \"/" \o Basename(host_mpoint) \o "\"">>
      \o [i \in DOMAIN fact_scripts_paths |->
            "/" \o Basename(host_mpoint) \o "/" \o Zfill6(i) \o "-"
                \o Basename(fact_scripts_paths[i].path) \o "-fact"]

\* C19: the main script first changes into the shared directory and then
\* runs the numbered scripts in registration order; the first command that
\* fails ends the bundle with a non-zero exit and nothing runs after it.
C19_FailFast ==
    pc = "sh" =>
        /\ Len(shExecuted) <= Len(BundleCommands)
        /\ shExecuted = SubSeq(BundleCommands, 1, Len(shExecuted))
        /\ shStatus # 0 => shExit = 1
        /\ shExit = 1 => shStatus # 0
        /\ shExit = 0 => shExecuted = BundleCommands

\* ------------------------------------------ properties of the record functions
\* the positions of the base-image records, or of those of image X
Selected(X) ==
    {i \in DOMAIN structure :
        IsBaseImage(structure[i]) /\ (X = NoneVal \/ structure[i].value = X)}

\* the same, an empty X selecting every base-image record like None
SelectedTruthy(X) ==
    {i \in DOMAIN structure :
        IsBaseImage(structure[i]) /\ (X \in {NoneVal, ""} \/ structure[i].value = X)}

\* seq holds the records at the positions idx, in file order
IsSubListAt(seq, idx) ==
    /\ Len(seq) = Cardinality(idx)
    /\ \A k \in DOMAIN seq :
          \E i \in idx : seq[k] = structure[i] /\ Cardinality({j \in idx : j < i}) = k - 1

\* C22 as stated: get_images() returns every base-image record in file
\* order, duplicates included, and get_images(image=X) exactly those whose
\* value equals X, in the same order.
C22_GetImages == imagesArg # NoCall => IsSubListAt(images, Selected(imagesArg))

\* C22: get_images() returns every base-image record in file order,
\* duplicates included; get_images(image=X) returns exactly those whose
\* value equals X when X is not empty, and every base-image record when X
\* is the empty string.
C22_GetImagesTruthy == imagesArg # NoCall => IsSubListAt(images, SelectedTruthy(imagesArg))

C22_Witness ==
    /\ imagesArg = "a"
    /\ Len(images) = 2
    /\ \E i \in DOMAIN structure : IsBaseImage(structure[i]) /\ structure[i].value = "b"

C21_PullFatal ==
    /\ \A i \in DOMAIN calls :
          /\ calls[i].op = "inspect" =>
                i > 1 /\ calls[i - 1].op = "pull" /\ calls[i - 1].image = calls[i].image
          /\ calls[i].op = "run" =>
                i > 2 /\ calls[i - 1].op = "inspect" /\ calls[i - 2].op = "pull"
                      /\ calls[i - 2].image = calls[i].image
    /\ \A i, j \in DOMAIN calls :
          (i < j /\ calls[i].op = "pull" /\ calls[j].op = "pull") =>
              calls[i].image # calls[j].image
    /\ failure = "PullError" =>
          /\ calls # <<>>
          /\ calls[Len(calls)].op = "pull"
          /\ ~DictHas(facts, calls[Len(calls)].image)

C21_Witness ==
    /\ pc = "exited"
    /\ failure = "PullError"
    /\ \E i \in DOMAIN calls : calls[i].op = "run"
    /\ Cardinality(facts) = 1

\* C23: when no facts file exists after the container run, gather_facts
\* does not fail: it goes on with an empty fact document that receives
\* docker_image_user.
C23_AbsentFactsFile ==
    ( /\ calls # <<>>
      /\ calls[Len(calls)].op = "run"
      /\ pc # "gf_running"
      /\ "facts.yaml" \notin wsFiles
      /\ failure \notin {"RunError", "SIGINT", "SIGTERM"} ) =>
        /\ failure = NoneVal
        /\ pc \in {"gf_check", "gf_rm"} =>
              gfacts = PyDict({<<"docker_image_user", InjectedUser(image_user)>>})

\* the provenance headers of a composed patch
ProvenanceHeaders(p) ==
    SelectSeq(p, LAMBDA piece : piece \in {"# ==> Patch: " \o t \o "\n" : t \in TemplatePaths})

\* C24: every template's rendering appears exactly once in the patch
\* composed for an image, with or without the user switch.
C24_RenderedOnce ==
    pc = "add_patch" =>
        ProvenanceHeaders(image_patch) =
            [i \in DOMAIN jinja_patches_content |->
                "# ==> Patch: " \o jinja_patches_content[i].path \o "\n"]

\* C25: the empty-facts exit never fires: at the 'if not facts' check the
\* document holds docker_image_user.
C25_ExitUnreachable ==
    /\ failure # "EmptyFacts"
    /\ pc = "gf_check" =>
          /\ gfacts.tag = "dict"
          /\ DictHas(gfacts.items, "docker_image_user")

C25_Witness ==
    /\ pc = "gf_check"
    /\ factsYaml = "{}\n"
    /\ Cardinality(gfacts.items) = 1

\* the failures of the loading steps of dockerfile_patch
LoadFailures ==
    {"LoadError:Dockerfile", "OSError:add_fact_script", "LoadError:template",
     "UnicodeDecodeError"}

\* C27: the Dockerfile, the probe scripts and the templates are loaded
\* before the first gather_facts call; when a load fails there is no
\* workspace, no pull and no container run.
C27_LoadFirst ==
    /\ failure \in LoadFailures => (calls = <<>> /\ disk = {} /\ containers = {})
    /\ calls # <<>> =>
          /\ structure = inDoc
          /\ Len(fact_scripts_paths) = Len(DefaultFactScripts)
          /\ Len(jinja_patches_content) = Len(inTemplates)

C27_Witness ==
    /\ pc = "exited"
    /\ failure = "LoadError:template"
    /\ Len(jinja_patches_content) = 1
    /\ Len(structure) > 0
    /\ calls = <<>>

\* C28: every workspace directory that exists on disk is listed in
\* tmpfiles.
C28_Tracked == \A d \in disk : \E i \in DOMAIN tmpfiles : tmpfiles[i] = d

\* C29: at most one workspace directory of the run exists on disk and at
\* most one probe container is running.
C29_Exclusive == Cardinality(disk) <= 1 /\ Cardinality(containers) <= 1

C29_Witness ==
    /\ pc = "gf_running"
    /\ Cardinality({i \in DOMAIN calls : calls[i].op = "gather_facts"}) = 2
    /\ Cardinality(disk) = 1
    /\ Cardinality(containers) = 1

\* C30: the patch entries are one per distinct base-image string, in
\* order of first occurrence; after a successful run there are as many
\* entries as distinct strings.
C30_OneEntryPerImage ==
    LET d == FirstOccurrences(BaseImageValues, {})
        e == [i \in DOMAIN patches |-> patches[i].image]
    IN  /\ Len(e) <= Len(d)
        /\ e = SubSeq(d, 1, Len(e))
        /\ (pc = "write" \/ (pc = "exited" /\ failure = NoneVal)) => e = d

C30_Witness ==
    /\ pc = "exited"
    /\ exitStatus = 0
    /\ Len(BaseImageValues) = 3
    /\ BaseImageValues[1] = BaseImageValues[3]
    /\ BaseImageValues[1] # BaseImageValues[2]
    /\ Len(patches) = 2

ScriptNames ==
    [i \in DOMAIN fact_scripts_paths |->
        facter_script_name(i, fact_scripts_paths[i].path)]

\* the numbered names are pairwise distinct, none is the name of the main
\* script or of the facts file, and the workspace holds exactly these files
\* and the main script
C32_DistinctNames ==
    pc \in {"gf_pull", "sh"} =>
        /\ \A i, j \in DOMAIN ScriptNames : i # j => ScriptNames[i] # ScriptNames[j]
        /\ \A i \in DOMAIN ScriptNames :
              ScriptNames[i] \notin {main_script_name, "facts.yaml"}
        /\ wsFiles = {ScriptNames[i] : i \in DOMAIN ScriptNames} \cup {main_script_name}
        /\ Cardinality(wsFiles) = Len(fact_scripts_paths) + 1

\* the main script holds, after '#!/bin/sh' and the cd, one line per
\* registered script, and the command /bin/sh executes for the i-th of them
\* is the i-th numbered file at its path under the guest directory
C32_Invoked ==
    pc \in {"gf_pull", "sh"} =>
        /\ Len(main_script_content) = Len(fact_scripts_paths) + 2
        /\ \A i \in DOMAIN ScriptNames :
              LET c == ShParse(main_script_content[i + 2], host_mpoint)
              IN  /\ c.cmd = guest_dir(host_mpoint) \o "/" \o ScriptNames[i]
                  /\ c.cmd \in GuestFiles(host_mpoint, wsFiles \ {main_script_name})

\* C32: the numbered file names written into the workspace never collide,
\* with each other, with the main script or with the facts file, and the
\* main script invokes exactly these files, one line per registered script,
\* at their path under the guest mount directory.
C32_NoCollision == C32_DistinctNames /\ C32_Invoked

====
